---- MODULE Spec2Model ----
(***************************************************************************)
(* tmuxai: the turn loop of Manager.ProcessUserMessage, the reply parser   *)
(* and guideline validator, processInput with its interrupt goroutine, the *)
(* watch-mode scheduler, and the exec-pane transcript parser.              *)
(***************************************************************************)
EXTENDS Integers, Sequences, FiniteSets, TLC

(* ------------------------------ bounds -------------------------------- *)

\* chat calls issued over one behaviour
MaxChat == 3
\* user inputs (processInput calls and /watch commands) over one behaviour
MaxInputs == 1
\* tagged segments in one model reply
MaxSegs == 2
\* messages the log may hold before needSquash reports true
SquashLimit == 4
\* lines in one pane capture
MaxLines == 3
\* capture attempts of one ExecWaitCapture call
MaxAttempts == 3
\* /prepare commands over one behaviour
MaxPrepares == 2
\* calls of BrowserClient methods over one behaviour
MaxBrowserCalls == 6

(* ------------------------------ helpers ------------------------------- *)

Top(s) == s[Len(s)]

Pop(s) == SubSeq(s, 1, Len(s) - 1)

SetTop(s, f) == [s EXCEPT ![Len(s)] = f]

RECURSIVE SeqsUpTo(_, _)
SeqsUpTo(S, n) ==
  IF n = 0 THEN {<<>>}
  ELSE LET shorter == SeqsUpTo(S, n - 1)
       IN  shorter \cup {Append(q, x) : q \in shorter, x \in S}

(* ------------------- model replies and parseAIResponse ---------------- *)

\* A reply text is a sequence of tagged segments <tag>body</tag>, in
\* document order; free text between them carries no structure.
Seg(tag, body) == [tag |-> tag, body |-> body]

FlagTags == {"RequestAccomplished", "ExecPaneSeemsBusy",
             "WaitingForUserResponse", "NoComment"}

\* the segments the chat collaborator may put in a reply of the turn loop
TurnSegs ==
  {Seg("ExecCommand", "c1"),
   Seg("TmuxSendKeys", "k1"),
   Seg("PasteMultilineContent", "p"),
   Seg("BrowserAction", "{}")}
  \cup {Seg(t, "1") : t \in FlagTags}

\* position of a tag in the order parseAIResponse extracts them (lines 295-335)
TagRank(tag) ==
  CASE tag = "BrowserAction"         -> 1
    [] tag = "TmuxSendKeys"          -> 2
    [] tag = "ExecCommand"           -> 3
    [] tag = "PasteMultilineContent" -> 4
    [] tag = "RequestAccomplished"   -> 5
    [] tag = "ExecPaneSeemsBusy"     -> 6
    [] tag = "WaitingForUserResponse" -> 7
    [] OTHER                         -> 8

\* Reply texts of the turn loop. Each tag is extracted by its own scan of the
\* whole text, so the relative position of segments with different tags has
\* no influence on the result: the replies list their tags in extraction
\* order, and segments with the same tag in every order.
Responses ==
  {q \in SeqsUpTo(TurnSegs, MaxSegs) :
     \A k \in 1..(Len(q) - 1) : TagRank(q[k].tag) <= TagRank(q[k + 1].tag)}

\* strings.TrimSpace on the bodies the model uses
TrimSpace(s) ==
  CASE s = " "    -> ""
    [] s = " c1 " -> "c1"
    [] s = "{} "  -> "{}"
    [] OTHER      -> s

\* json.Unmarshal into map[string]interface{} succeeds
ValidJSONObject(s) == s \in {"{}", "null"}

RECURSIVE Bodies(_, _)
Bodies(response, tag) ==
  IF response = <<>> THEN <<>>
  ELSE LET rest == Bodies(Tail(response), tag)
       IN  IF Head(response).tag = tag
           THEN <<TrimSpace(Head(response).body)>> \o rest
           ELSE rest

Contains(response, tag) ==
  \E k \in DOMAIN response : response[k] = Seg(tag, "1")

parseAIResponse(response) ==
  LET browser == Bodies(response, "BrowserAction")
      paste   == Bodies(response, "PasteMultilineContent")
  IN  [BrowserAction |->
         IF browser # <<>> /\ ValidJSONObject(browser[1]) THEN browser[1] ELSE "",
       SendKeys |-> Bodies(response, "TmuxSendKeys"),
       ExecCommand |-> Bodies(response, "ExecCommand"),
       PasteMultilineContent |-> IF paste # <<>> THEN paste[1] ELSE "",
       RequestAccomplished |-> Contains(response, "RequestAccomplished"),
       ExecPaneSeemsBusy |-> Contains(response, "ExecPaneSeemsBusy"),
       WaitingForUserResponse |-> Contains(response, "WaitingForUserResponse"),
       NoComment |-> Contains(response, "NoComment")]

(* ------------------------- aiFollowedGuidelines ----------------------- *)

GuidelineFlags ==
  "You didn't follow the guidelines. Only one boolean flag should be set to true in your response. Pay attention!"

GuidelineTags ==
  "You didn't follow the guidelines. You can only use one type of XML tag in your response. Pay attention!"

GuidelineEmpty ==
  "You didn't follow the guidelines. You must use at least one XML tag in your response. Pay attention!"

B2N(b) == IF b THEN 1 ELSE 0

boolCount(r) ==
  B2N(r.RequestAccomplished) + B2N(r.ExecPaneSeemsBusy)
    + B2N(r.WaitingForUserResponse) + B2N(r.NoComment)

\* len(string) > 0
NonEmpty(s) == s # ""

tagCount(r) ==
  B2N(Len(r.ExecCommand) > 0) + B2N(Len(r.SendKeys) > 0)
    + B2N(NonEmpty(r.PasteMultilineContent)) + B2N(NonEmpty(r.BrowserAction))

\* aiFollowedGuidelines with the watch-mode exemption of line 396 left out
aiFollowedGuidelinesAnyMode(r, watchMode) ==
  IF boolCount(r) > 1 THEN [msg |-> GuidelineFlags, ok |-> FALSE]
  ELSE IF tagCount(r) > 1 THEN [msg |-> GuidelineTags, ok |-> FALSE]
  ELSE IF tagCount(r) + boolCount(r) = 0
       THEN [msg |-> GuidelineEmpty, ok |-> FALSE]
  ELSE [msg |-> "", ok |-> TRUE]

\* aiFollowedGuidelines with the limit of line 391 raised to two action kinds
aiFollowedGuidelinesTwoKinds(r, watchMode) ==
  IF boolCount(r) > 1 THEN [msg |-> GuidelineFlags, ok |-> FALSE]
  ELSE IF tagCount(r) > 2 THEN [msg |-> GuidelineTags, ok |-> FALSE]
  ELSE IF ~watchMode /\ tagCount(r) + boolCount(r) = 0
       THEN [msg |-> GuidelineEmpty, ok |-> FALSE]
  ELSE [msg |-> "", ok |-> TRUE]

aiFollowedGuidelines(r, watchMode) ==
  IF boolCount(r) > 1 THEN [msg |-> GuidelineFlags, ok |-> FALSE]
  ELSE IF tagCount(r) > 1 THEN [msg |-> GuidelineTags, ok |-> FALSE]
  ELSE IF ~watchMode /\ tagCount(r) + boolCount(r) = 0
       THEN [msg |-> GuidelineEmpty, ok |-> FALSE]
  ELSE [msg |-> "", ok |-> TRUE]

(* ------------------------------- state -------------------------------- *)

VARIABLES
  Status,        \* Manager.Status: "", "running" or "waiting"
  WatchMode,     \* Manager.WatchMode
  Messages,      \* Manager.Messages, the ChatMessage log
  stack,         \* call stack of the main control flow, innermost frame last
  nChat,         \* chat calls issued so far
  nInputs,       \* user inputs started so far
  ctxCancelled,  \* the context of the running processInput has been cancelled
  gor,           \* state of the interrupt goroutine of each processInput
  seen,          \* what has happened since the current user input started
  last,          \* the latest step of the main control flow
  fcall          \* a function applied on its own: name, argument, result

turnVars == <<Status, WatchMode, Messages, stack, nChat, nInputs,
              ctxCancelled, gor, seen, last>>

vars == <<Status, WatchMode, Messages, stack, nChat, nInputs,
          ctxCancelled, gor, seen, last, fcall>>

BusyProbe == "waited for 5 more seconds, here is the current pane(s) content"

UpdateProbe == "sending updated pane(s) content"

UserText == "user input"

WatchDesc == "watch description"

NoResponse == parseAIResponse(<<>>)

Frame(fn, pc, ctx, message) ==
  [fn |-> fn, pc |-> pc, ctx |-> ctx, message |-> message,
   r |-> NoResponse, i |-> 0, turn |-> 0, did |-> {}, acc |-> FALSE]

\* ChatMessage; Timestamp is the number of the chat call the message belongs to
ChatMessage(content, fromUser, stamp) ==
  [Content |-> content, FromUser |-> fromUser, Timestamp |-> stamp]

currentMessage(f) == ChatMessage(f.message, TRUE, f.turn)

responseMsg(f) == ChatMessage("response", FALSE, f.turn)

needSquash(msgs) == Len(msgs) >= SquashLimit

squashHistory(msgs) == <<ChatMessage("summary", FALSE, 0)>>

CtxCancelled(ctx) == ctx = "input" /\ ctxCancelled

(* ----------------------- stages of a valid reply ---------------------- *)

Stages == <<"exec", "keys", "browser", "busy", "paste", "flags">>

HasWork(r, stage) ==
  CASE stage = "exec"    -> Len(r.ExecCommand) > 0
    [] stage = "keys"    -> Len(r.SendKeys) > 0
    [] stage = "browser" -> NonEmpty(r.BrowserAction)
    [] stage = "busy"    -> r.ExecPaneSeemsBusy
    [] stage = "paste"   -> NonEmpty(r.PasteMultilineContent)
    [] OTHER             -> TRUE

\* the first block at or after position k whose condition holds for r
NextStage(r, k) ==
  Stages[CHOOSE j \in k..6 :
           HasWork(r, Stages[j]) /\ \A l \in k..(j - 1) : ~HasWork(r, Stages[l])]

StageNo(stage) == CHOOSE j \in 1..6 : Stages[j] = stage

\* r as far as the blocks from position j on still read it
Remaining(r, j) ==
  [r EXCEPT !.ExecCommand = IF j > 1 THEN <<>> ELSE @,
            !.SendKeys = IF j > 2 THEN <<>> ELSE @,
            !.BrowserAction = IF j > 3 THEN "" ELSE @,
            !.PasteMultilineContent = IF j > 5 THEN "" ELSE @]

\* The frame f as it reaches the first block at or after position k that has
\* work to do. The frame keeps what the rest of the function still reads:
\* message and turn are last read when the history is updated (line 135),
\* and the kinds of action done matter as long as another action can follow.
EnterStage(f, k) ==
  LET stage == NextStage(f.r, k)
      rest  == Remaining(f.r, StageNo(stage))
  IN  [f EXCEPT !.pc = stage, !.i = 1, !.message = "", !.turn = 0,
                !.r = rest,
                !.did = IF tagCount(rest) = 0 THEN {} ELSE @]

(* ------------------------------ returning ----------------------------- *)

\* How the caller on top of stk goes on when its callee returns v.
RECURSIVE Unwind(_, _)
Unwind(stk, v) ==
  IF stk = <<>> THEN <<>>
  ELSE LET c == Top(stk)
       IN  CASE c.fn = "PUM" /\ c.pc = "ret123" -> Unwind(Pop(stk), v)
             [] c.fn = "PUM" /\ c.pc = "ret282" -> Unwind(Pop(stk), v)
             [] c.fn = "PUM" /\ c.pc = "ret238" ->
                  IF v THEN Unwind(Pop(stk), TRUE)
                  ELSE SetTop(stk, EnterStage(c, 5))
             [] c.fn = "SWM" -> SetTop(stk, [c EXCEPT !.pc = "after", !.acc = v])
             [] OTHER -> SetTop(stk, [c EXCEPT !.pc = "finish", !.acc = v])

\* the innermost frame returns v
Return(v) == stack' = Unwind(Pop(stack), v)

\* The caller's frame while its callee runs, holding what the caller still
\* reads when the callee returns. After the calls of lines 123 and 282 it
\* only passes the result on. After the call of line 238 it reads
\* r.PasteMultilineContent, the flags of r and ctx (lines 245-287).
Suspended(f, pc) ==
  CASE pc \in {"ret123", "ret282"} -> Frame(f.fn, pc, "", "")
    [] pc = "ret238" ->
         [f EXCEPT !.pc = pc, !.i = 0, !.r = Remaining(f.r, 5)]
    [] OTHER -> [f EXCEPT !.pc = pc]

\* Call starting the new turn while the caller goes on running
CallConcurrent(pc, ctx, message) ==
  stack' = Append(stack, Frame("PUM", "start", ctx, message))

\* the innermost frame calls ProcessUserMessage(ctx, message) at line pc
Call(pc, ctx, message) ==
  stack' = Append(SetTop(stack, Suspended(Top(stack), pc)),
                  Frame("PUM", "start", ctx, message))

InPUM(pc) == stack # <<>> /\ Top(stack).fn = "PUM" /\ Top(stack).pc = pc

(* ------------------------- ProcessUserMessage ------------------------- *)

\* The confirmation settings (GetExecConfirm, GetSendKeysConfirm,
\* GetPasteMultilineConfirm), the user's answer to confirmedToExec and
\* ExecPane.IsPrepared are read from the session at each use: isSafe and
\* allConfirmed range over both outcomes of "no confirmation needed, or the
\* user agreed" against "confirmation needed and the user declined".

\* a step of the main control flow that hands nothing to the pane
NoDirective == [kind |-> "", text |-> "", submit |-> FALSE]

Step(op) == [op |-> op, d |-> NoDirective, err |-> FALSE]

Directive(kind, text, submit) == [kind |-> kind, text |-> text, submit |-> submit]

\* lines 20-60: squash when needed, the pre-call status check, the chat call
PreCheck ==
  /\ InPUM("start")
  /\ Messages' = IF needSquash(Messages) THEN squashHistory(Messages) ELSE Messages
  /\ IF Status = ""
     THEN /\ Return(FALSE)
          /\ last' = Step("PreCancelled")
          /\ UNCHANGED nChat
     ELSE /\ nChat < MaxChat
          /\ nChat' = nChat + 1
          /\ stack' = SetTop(stack, [Top(stack) EXCEPT !.pc = "inflight",
                                                        !.turn = nChat + 1])
          /\ last' = Step("ChatCall")
  /\ UNCHANGED <<Status, WatchMode, nInputs, ctxCancelled, gor, seen, fcall>>

\* ChatError without the assignment of line 63
ChatErrorKeepStatus ==
  /\ InPUM("inflight")
  /\ Return(FALSE)
  /\ last' = Step("ChatError")
  /\ UNCHANGED <<Status, WatchMode, Messages, nChat, nInputs, ctxCancelled, gor,
                 seen, fcall>>

\* lines 61-79: the chat call fails (transport error, or its context is cancelled)
ChatError ==
  /\ InPUM("inflight")
  /\ Status' = ""
  /\ Return(FALSE)
  /\ last' = Step("ChatError")
  /\ UNCHANGED <<WatchMode, Messages, nChat, nInputs, ctxCancelled, gor, seen, fcall>>

\* InvalidReply recursing with the turn's own message instead of guidelineError
InvalidReplyResend(f, guidelineError) ==
  /\ Messages' = Messages \o <<currentMessage(f), responseMsg(f)>>
  /\ Call("ret123", f.ctx, f.message)
  /\ last' = Step("Invalid")

\* InvalidReply without the append of line 122
InvalidReplyNoAppend(f, guidelineError) ==
  /\ Messages' = Messages
  /\ Call("ret123", f.ctx, guidelineError)
  /\ last' = Step("Invalid")

\* lines 119-125: the reply broke the guidelines
InvalidReply(f, guidelineError) ==
  /\ Messages' = Messages \o <<currentMessage(f), responseMsg(f)>>
  /\ Call("ret123", f.ctx, guidelineError)
  /\ last' = Step("Invalid")

\* ValidReply keeping the reply without the outbound message
ValidReplyReplyOnly(f) ==
  /\ Messages' = IF f.r.ExecPaneSeemsBusy \/ f.r.NoComment
                 THEN Messages
                 ELSE Messages \o <<responseMsg(f)>>
  /\ stack' = SetTop(stack, EnterStage(f, 1))
  /\ last' = Step("Valid")

\* ValidReply persisting the pair whatever the flags of the reply
ValidReplyPersistAll(f) ==
  /\ Messages' = Messages \o <<currentMessage(f), responseMsg(f)>>
  /\ stack' = SetTop(stack, EnterStage(f, 1))
  /\ last' = Step("Valid")

\* lines 132-136: the reply is valid
ValidReply(f) ==
  /\ Messages' = IF f.r.ExecPaneSeemsBusy \/ f.r.NoComment
                 THEN Messages
                 ELSE Messages \o <<currentMessage(f), responseMsg(f)>>
  /\ stack' = SetTop(stack, EnterStage(f, 1))
  /\ last' = Step("Valid")

\* ChatReply without the status check of lines 82-85
ChatReplyNoCheck ==
  /\ InPUM("inflight")
  /\ ~CtxCancelled(Top(stack).ctx)
  /\ \E response \in Responses :
       LET f == [Top(stack) EXCEPT !.r = parseAIResponse(response)]
           g == aiFollowedGuidelines(f.r, WatchMode)
       IN  IF ~g.ok THEN InvalidReply(f, g.msg) ELSE ValidReply(f)
  /\ UNCHANGED <<Status, WatchMode, nChat, nInputs, ctxCancelled, gor, seen, fcall>>

\* lines 60, 81-136: GetResponseFromChatMessages returns a reply before its
\* context is cancelled; the post-call status check, parsing, validation and
\* the history update follow
ChatReply ==
  /\ InPUM("inflight")
  /\ ~CtxCancelled(Top(stack).ctx)
  /\ \E response \in Responses :
       LET f == [Top(stack) EXCEPT !.r = parseAIResponse(response)]
           g == aiFollowedGuidelines(f.r, WatchMode)
       IN  IF Status = ""
           THEN /\ Return(FALSE)
                /\ last' = Step("Dropped")
                /\ UNCHANGED Messages
           ELSE IF ~g.ok THEN InvalidReply(f, g.msg) ELSE ValidReply(f)
  /\ UNCHANGED <<Status, WatchMode, nChat, nInputs, ctxCancelled, gor, seen, fcall>>

\* the innermost frame hands d to the pane (or the browser) through op, which
\* reports an error or not, and goes on as g
Send(f, g, op, d, err) ==
  /\ stack' = SetTop(stack, [g EXCEPT !.did = IF tagCount(g.r) = 0 THEN {}
                                               ELSE f.did \cup {d.kind}])
  /\ last' = [op |-> op, d |-> d, err |-> err]

\* Decline without the assignment of lines 159, 193, 228 and 261
DeclineKeepStatus ==
  /\ Status' = Status
  /\ Return(FALSE)
  /\ seen' = seen \cup {"declined"}
  /\ last' = Step("Declined")

\* a confirmation is declined: lines 159-160, 193-194, 228-229, 261-262
Decline ==
  /\ Status' = ""
  /\ Return(FALSE)
  /\ seen' = seen \cup {"declined"}
  /\ last' = Step("Declined")

\* ExecItem taking the items of the reply from the last one to the first
ExecItemBackwards ==
  /\ InPUM("exec")
  /\ LET f == Top(stack)
         n == Len(f.r.ExecCommand)
         g == IF f.i < n THEN [f EXCEPT !.i = f.i + 1] ELSE EnterStage(f, 2)
     IN  \E isSafe, IsPrepared, err \in BOOLEAN :
           IF ~isSafe
           THEN ~IsPrepared /\ ~err /\ Decline
           ELSE /\ Send(f, g, IF IsPrepared THEN "ExecWaitCapture"
                                ELSE "TmuxSendCommandToPane",
                        Directive("ExecCommand", f.r.ExecCommand[n + 1 - f.i], TRUE), err)
                /\ UNCHANGED <<Status, seen>>
  /\ UNCHANGED <<WatchMode, Messages, nChat, nInputs, ctxCancelled, gor, fcall>>

\* lines 139-162: one iteration of the ExecCommand loop
ExecItem ==
  /\ InPUM("exec")
  /\ LET f == Top(stack)
         n == Len(f.r.ExecCommand)
         g == IF f.i < n THEN [f EXCEPT !.i = f.i + 1] ELSE EnterStage(f, 2)
     IN  \E isSafe, IsPrepared, err \in BOOLEAN :
           IF ~isSafe
           THEN ~IsPrepared /\ ~err /\ Decline
           ELSE /\ Send(f, g, IF IsPrepared THEN "ExecWaitCapture"
                                ELSE "TmuxSendCommandToPane",
                        Directive("ExecCommand", f.r.ExecCommand[f.i], TRUE), err)
                /\ UNCHANGED <<Status, seen>>
  /\ UNCHANGED <<WatchMode, Messages, nChat, nInputs, ctxCancelled, gor, fcall>>

\* lines 165-196: the key preview with its status check, and the confirmation
KeysBegin ==
  /\ InPUM("keys")
  /\ LET f == Top(stack)
     IN  IF Status = ""
         THEN /\ Return(FALSE)
              /\ last' = Step("KeysCancelled")
              /\ UNCHANGED <<Status, seen>>
         ELSE \E allConfirmed \in BOOLEAN :
                IF ~allConfirmed
                THEN Decline
                ELSE /\ stack' = SetTop(stack, [f EXCEPT !.pc = "sendkeys", !.i = 1])
                     /\ last' = Step("KeysConfirmed")
                     /\ UNCHANGED <<Status, seen>>
  /\ UNCHANGED <<WatchMode, Messages, nChat, nInputs, ctxCancelled, gor, fcall>>

\* lines 199-203: one iteration of the key sending loop
SendKey ==
  /\ InPUM("sendkeys")
  /\ LET f == Top(stack)
         n == Len(f.r.SendKeys)
         g == IF f.i < n THEN [f EXCEPT !.i = f.i + 1] ELSE EnterStage(f, 3)
     IN  \E err \in BOOLEAN :
           Send(f, g, "TmuxSendCommandToPane",
                Directive("SendKeys", f.r.SendKeys[f.i], FALSE), err)
  /\ UNCHANGED <<Status, WatchMode, Messages, nChat, nInputs,
                 ctxCancelled, gor, seen, fcall>>

\* Browser going on after a failed executeBrowserAction (lines 221-225 left out)
BrowserIgnoreFailure ==
  /\ InPUM("browser")
  /\ LET f == Top(stack)
     IN  \E isSafe, err \in BOOLEAN :
           IF ~isSafe
           THEN ~err /\ Decline
           ELSE /\ Send(f, EnterStage(f, 4), "executeBrowserAction",
                        Directive("BrowserAction", f.r.BrowserAction, FALSE), err)
                /\ seen' = IF err THEN seen \cup {"browserFailed"} ELSE seen
                /\ UNCHANGED Status
  /\ UNCHANGED <<WatchMode, Messages, nChat, nInputs, ctxCancelled, gor, fcall>>

\* lines 207-231: the browser action
Browser ==
  /\ InPUM("browser")
  /\ LET f == Top(stack)
     IN  \E isSafe, err \in BOOLEAN :
           IF ~isSafe
           THEN ~err /\ Decline
           ELSE /\ IF err
                   THEN /\ Status' = ""
                        /\ Return(FALSE)
                        /\ seen' = seen \cup {"browserFailed"}
                        /\ last' = Step("BrowserFailed")
                   ELSE /\ Send(f, EnterStage(f, 4), "executeBrowserAction",
                                Directive("BrowserAction", f.r.BrowserAction, FALSE),
                                FALSE)
                        /\ UNCHANGED <<Status, seen>>
  /\ UNCHANGED <<WatchMode, Messages, nChat, nInputs, ctxCancelled, gor, fcall>>

\* lines 233-238: the pane seems busy: wait, then recurse with a new context
Busy ==
  /\ InPUM("busy")
  /\ Call("ret238", "bg", BusyProbe)
  /\ last' = Step("BusyRecurse")
  /\ UNCHANGED <<Status, WatchMode, Messages, nChat, nInputs,
                 ctxCancelled, gor, seen, fcall>>

\* lines 245-264: the multiline paste
Paste ==
  /\ InPUM("paste")
  /\ LET f == Top(stack)
     IN  \E isSafe, err \in BOOLEAN :
           IF ~isSafe
           THEN ~err /\ Decline
           ELSE /\ Send(f, EnterStage(f, 6), "TmuxSendCommandToPane",
                        Directive("PasteMultilineContent", f.r.PasteMultilineContent,
                                  TRUE), err)
                /\ UNCHANGED <<Status, seen>>
  /\ UNCHANGED <<WatchMode, Messages, nChat, nInputs, ctxCancelled, gor, fcall>>

\* Flags recursing with the update probe in watch mode as well
FlagsAlwaysRecurse ==
  /\ InPUM("flags")
  /\ LET f == Top(stack)
     IN  IF f.r.RequestAccomplished
         THEN /\ Status' = ""
              /\ Return(TRUE)
              /\ seen' = seen \cup {"accomplished"}
              /\ last' = Step("Accomplished")
         ELSE IF f.r.WaitingForUserResponse
         THEN /\ Status' = "waiting"
              /\ Return(FALSE)
              /\ seen' = seen \cup {"waiting"}
              /\ last' = Step("Waiting")
         ELSE IF f.r.NoComment
         THEN /\ Return(FALSE)
              /\ last' = Step("NoComment")
              /\ UNCHANGED <<Status, seen>>
         ELSE /\ Call("ret282", f.ctx, UpdateProbe)
              /\ last' = Step("UpdateRecurse")
              /\ UNCHANGED <<Status, seen>>
  /\ UNCHANGED <<WatchMode, Messages, nChat, nInputs, ctxCancelled, gor, fcall>>

\* lines 266-287: the flags of the reply decide how the turn ends
Flags ==
  /\ InPUM("flags")
  /\ LET f == Top(stack)
     IN  IF f.r.RequestAccomplished
         THEN /\ Status' = ""
              /\ Return(TRUE)
              /\ seen' = seen \cup {"accomplished"}
              /\ last' = Step("Accomplished")
         ELSE IF f.r.WaitingForUserResponse
         THEN /\ Status' = "waiting"
              /\ Return(FALSE)
              /\ seen' = seen \cup {"waiting"}
              /\ last' = Step("Waiting")
         ELSE IF f.r.NoComment
         THEN /\ Return(FALSE)
              /\ last' = Step("NoComment")
              /\ UNCHANGED <<Status, seen>>
         ELSE IF ~WatchMode
         THEN /\ Call("ret282", f.ctx, UpdateProbe)
              /\ last' = Step("UpdateRecurse")
              /\ UNCHANGED <<Status, seen>>
         ELSE /\ Return(FALSE)
              /\ last' = Step("WatchCycleEnd")
              /\ UNCHANGED <<Status, seen>>
  /\ UNCHANGED <<WatchMode, Messages, nChat, nInputs, ctxCancelled, gor, fcall>>

(* ----------------------------- processInput --------------------------- *)

Running(k) == stack # <<>> /\ stack[1].fn = "PI" /\ k = nInputs

\* lines 130-149: a non-subcommand input arrives; signal channel, done
\* channel, context and the interrupt goroutine are set up
ProcessInputBegin ==
  /\ stack = <<>>
  /\ nInputs < MaxInputs
  /\ nInputs' = nInputs + 1
  /\ gor' = [gor EXCEPT ![nInputs + 1] = "armed"]
  /\ ctxCancelled' = FALSE
  /\ seen' = {}
  /\ stack' = <<Frame("PI", "setup", "input", UserText)>>
  /\ last' = Step("InputBegin")
  /\ UNCHANGED <<Status, WatchMode, Messages, nChat, fcall>>

\* lines 152-153: Status = "running" and the first turn
ProcessInputRun ==
  /\ stack # <<>> /\ Top(stack).fn = "PI" /\ Top(stack).pc = "setup"
  /\ Status' = "running"
  /\ Call("called", "input", UserText)
  /\ last' = Step("InputRun")
  /\ UNCHANGED <<WatchMode, Messages, nChat, nInputs, ctxCancelled, gor, seen, fcall>>

\* ProcessInputEnd without the assignment of line 154
ProcessInputEndKeepStatus ==
  /\ stack # <<>> /\ Top(stack).fn = "PI" /\ Top(stack).pc = "finish"
  /\ Status' = Status
  /\ gor' = [gor EXCEPT ![nInputs] = IF @ = "armed" THEN "exit" ELSE @]
  /\ stack' = <<>>
  /\ last' = Step("InputEnd")
  /\ UNCHANGED <<WatchMode, Messages, nChat, nInputs, ctxCancelled, seen, fcall>>

\* lines 154-158: Status = "", close(done), signal.Stop; a goroutine still
\* blocked in its select leaves through the done case
ProcessInputEnd ==
  /\ stack # <<>> /\ Top(stack).fn = "PI" /\ Top(stack).pc = "finish"
  /\ Status' = ""
  /\ gor' = [gor EXCEPT ![nInputs] = IF @ = "armed" THEN "exit" ELSE @]
  /\ stack' = <<>>
  /\ last' = Step("InputEnd")
  /\ UNCHANGED <<WatchMode, Messages, nChat, nInputs, ctxCancelled, seen, fcall>>

\* line 143: an interrupt signal reaches the goroutine of the running input
Interrupt(k) ==
  /\ Running(k)
  /\ gor[k] = "armed"
  /\ gor' = [gor EXCEPT ![k] = "fired"]
  /\ UNCHANGED <<Status, WatchMode, Messages, stack, nChat, nInputs,
                 ctxCancelled, seen, last, fcall>>

\* line 144: cancel()
GorCancel(k) ==
  /\ gor[k] = "fired"
  /\ gor' = [gor EXCEPT ![k] = "cancelled"]
  /\ ctxCancelled' = IF Running(k) THEN TRUE ELSE ctxCancelled
  /\ UNCHANGED <<Status, WatchMode, Messages, stack, nChat, nInputs, seen, last, fcall>>

\* line 145: c.manager.Status = ""
GorStatus(k) ==
  /\ gor[k] = "cancelled"
  /\ gor' = [gor EXCEPT ![k] = "cleared"]
  /\ Status' = ""
  /\ seen' = IF Running(k) /\ Len(stack) >= 2
             THEN seen \cup {"interrupted"} ELSE seen
  /\ UNCHANGED <<WatchMode, Messages, stack, nChat, nInputs,
                 ctxCancelled, last, fcall>>

\* line 146: c.manager.WatchMode = false
GorWatchMode(k) ==
  /\ gor[k] = "cleared"
  /\ gor' = [gor EXCEPT ![k] = "exit"]
  /\ WatchMode' = FALSE
  /\ UNCHANGED <<Status, Messages, stack, nChat, nInputs,
                 ctxCancelled, seen, last, fcall>>

(* ------------------------------ watch mode ---------------------------- *)

\* the /watch subcommand: Status = "running", WatchMode = true, startWatchMode
WatchSubCommand ==
  /\ stack = <<>>
  /\ nInputs < MaxInputs
  /\ nInputs' = nInputs + 1
  /\ seen' = {}
  /\ Status' = "running"
  /\ WatchMode' = TRUE
  /\ stack' = <<Frame("SWM", "start", "bg", WatchDesc)>>
  /\ last' = Step("WatchBegin")
  /\ UNCHANGED <<Messages, nChat, ctxCancelled, gor, fcall>>

\* lines 342-353: the status check, the countdown and the turn
WatchStart ==
  /\ stack # <<>> /\ Top(stack).fn = "SWM" /\ Top(stack).pc = "start"
  /\ IF Status = ""
     THEN /\ stack' = <<>>
          /\ last' = Step("WatchStopped")
     ELSE /\ Call("called", "bg", Top(stack).message)
          /\ last' = Step("WatchTurn")
  /\ UNCHANGED <<Status, WatchMode, Messages, nChat, nInputs,
                 ctxCancelled, gor, seen, fcall>>

\* lines 354-362: after the turn
WatchAfter ==
  /\ stack # <<>> /\ Top(stack).fn = "SWM" /\ Top(stack).pc = "after"
  /\ Status' = IF Top(stack).acc THEN "" ELSE Status
  /\ WatchMode' = IF Top(stack).acc THEN FALSE ELSE WatchMode
  /\ IF Status' # "" /\ WatchMode'
     THEN /\ stack' = <<Frame("SWM", "start", "bg", "")>>
          /\ last' = Step("WatchAgain")
     ELSE /\ stack' = <<>>
          /\ last' = Step("WatchEnd")
  /\ UNCHANGED <<Messages, nChat, nInputs, ctxCancelled, gor, seen, fcall>>

(* ---------------------------- specification --------------------------- *)

NoCall == [fn |-> "", arg |-> <<>>, res |-> <<>>, done |-> FALSE]

\* the state of the turn machinery after construction
Idle ==
  /\ Status = ""
  /\ WatchMode = FALSE
  /\ Messages = <<>>
  /\ stack = <<>>
  /\ nChat = 0
  /\ nInputs = 0
  /\ ctxCancelled = FALSE
  /\ gor = [k \in 1..MaxInputs |-> "none"]
  /\ seen = {}
  /\ last = Step("Init")

Init == Idle /\ fcall = NoCall

Next ==
  \/ PreCheck
  \/ ChatReply
  \/ ChatError
  \/ ExecItem
  \/ KeysBegin
  \/ SendKey
  \/ Browser
  \/ Busy
  \/ Paste
  \/ Flags
  \/ ProcessInputBegin
  \/ ProcessInputRun
  \/ ProcessInputEnd
  \/ \E k \in 1..MaxInputs : Interrupt(k)
  \/ \E k \in 1..MaxInputs : GorCancel(k)
  \/ \E k \in 1..MaxInputs : GorStatus(k)
  \/ \E k \in 1..MaxInputs : GorWatchMode(k)
  \/ WatchSubCommand
  \/ WatchStart
  \/ WatchAfter

Spec == Init /\ [][Next]_vars

(* ------------- a watch session after an interrupted input ------------- *)

\* The /watch command has just started startWatchMode, as the second input of
\* the session. The first input went through processInput: its chat call
\* failed, and its goroutine took an interrupt signal in the select of line
\* 142 just before the done channel was closed, so that the three statements
\* of lines 144-146 are still to run.
InitWatch ==
  /\ Status = "running"
  /\ WatchMode = TRUE
  /\ Messages = <<>>
  /\ stack = <<Frame("SWM", "start", "bg", WatchDesc)>>
  /\ nChat = 1
  /\ nInputs = 2
  /\ ctxCancelled = FALSE
  /\ gor = [k \in 1..MaxInputs |-> IF k = 1 THEN "fired" ELSE "none"]
  /\ seen = {}
  /\ last = Step("WatchBegin")
  /\ fcall = NoCall

NextWatch ==
  \/ PreCheck
  \/ ChatReply
  \/ ChatError
  \/ ExecItem
  \/ KeysBegin
  \/ SendKey
  \/ Browser
  \/ Busy
  \/ Paste
  \/ Flags
  \/ GorCancel(1)
  \/ GorStatus(1)
  \/ GorWatchMode(1)
  \/ WatchStart
  \/ WatchAfter

SpecWatch == InitWatch /\ [][NextWatch]_vars

(* ------------------- aiFollowedGuidelines on its own ------------------ *)

\* every AIResponse with at most MaxSegs commands and keys
AIResponses ==
  [BrowserAction : {"", "{}"},
   SendKeys : SeqsUpTo({"k1"}, MaxSegs),
   ExecCommand : SeqsUpTo({"c1"}, MaxSegs),
   PasteMultilineContent : {"", "p"},
   RequestAccomplished : BOOLEAN,
   ExecPaneSeemsBusy : BOOLEAN,
   WaitingForUserResponse : BOOLEAN,
   NoComment : BOOLEAN]

InitGuidelines ==
  /\ Idle
  /\ fcall \in {[fn |-> "aiFollowedGuidelines",
                 arg |-> [r |-> r, watchMode |-> w],
                 res |-> <<>>, done |-> FALSE] : r \in AIResponses, w \in BOOLEAN}

ApplyGuidelines ==
  /\ fcall.fn = "aiFollowedGuidelines"
  /\ ~fcall.done
  /\ fcall' = [fcall EXCEPT
                 !.res = aiFollowedGuidelines(fcall.arg.r, fcall.arg.watchMode),
                 !.done = TRUE]
  /\ UNCHANGED turnVars

SpecGuidelines == InitGuidelines /\ [][ApplyGuidelines]_vars

(* ------------------ a reply with ExecCommand items -------------------- *)

\* the segments of a reply that carries commands: two different commands,
\* one of them with surrounding space, and two of the flags
ExecSegs ==
  {Seg("ExecCommand", " c1 "), Seg("ExecCommand", "c2"),
   Seg("RequestAccomplished", "1"), Seg("WaitingForUserResponse", "1")}

\* reply texts with at least one ExecCommand that pass the validator
ExecReplies ==
  {q \in SeqsUpTo(ExecSegs, MaxSegs) :
     /\ \E k \in DOMAIN q : q[k].tag = "ExecCommand"
     /\ aiFollowedGuidelines(parseAIResponse(q), FALSE).ok}

\* The first turn of a user input has received the reply q, found it valid
\* and added it to the log (lines 18-136); fcall keeps the reply text and
\* what parseAIResponse made of it.
InitExec ==
  \E q \in ExecReplies :
    LET r == parseAIResponse(q)
        f == [Frame("PUM", "inflight", "input", UserText) EXCEPT !.r = r, !.turn = 1]
    IN  /\ Status = "running"
        /\ WatchMode = FALSE
        /\ Messages = <<currentMessage(f), responseMsg(f)>>
        /\ stack = <<Suspended(Frame("PI", "setup", "input", UserText), "called"),
                     EnterStage(f, 1)>>
        /\ nChat = 1
        /\ nInputs = 1
        /\ ctxCancelled = FALSE
        /\ gor = [k \in 1..MaxInputs |-> IF k = 1 THEN "armed" ELSE "none"]
        /\ seen = {}
        /\ last = Step("Valid")
        /\ fcall = [fn |-> "parseAIResponse",
                    arg |-> [response |-> q, watchMode |-> FALSE],
                    res |-> [r |-> r, err |-> FALSE,
                             verdict |-> aiFollowedGuidelines(r, FALSE)],
                    done |-> TRUE]

NextExec ==
  \/ ExecItem
  \/ Flags
  \/ PreCheck
  \/ ChatError
  \/ ProcessInputEnd

SpecExec == InitExec /\ [][NextExec]_vars

(* --------------------- parseAIResponse on its own --------------------- *)

\* the segments of the reply texts given to parseAIResponse: BrowserAction
\* payloads that are a JSON object, with and without surrounding space,
\* the JSON value null, text that is not JSON and a blank payload; the
\* other tags; a flag tag that reads 1 and one that does not
ParseSegs ==
  {Seg("BrowserAction", b) : b \in {"{}", "{} ", "null", "x", " "}}
  \cup {Seg("ExecCommand", " c1 "),
        Seg("TmuxSendKeys", "k1"),
        Seg("PasteMultilineContent", "p"),
        Seg("RequestAccomplished", "1"),
        Seg("NoComment", "0")}

\* reply texts, with their segments in every order
ParseReplies == SeqsUpTo(ParseSegs, MaxSegs)

InitParse ==
  /\ Idle
  /\ fcall \in {[fn |-> "parseAIResponse",
                 arg |-> [response |-> q, watchMode |-> w],
                 res |-> <<>>, done |-> FALSE] : q \in ParseReplies, w \in BOOLEAN}

\* lines 87-119: the reply is parsed and the result given to the validator
ApplyParse ==
  /\ fcall.fn = "parseAIResponse"
  /\ ~fcall.done
  /\ LET r == parseAIResponse(fcall.arg.response)
     IN  fcall' = [fcall EXCEPT
                     !.res = [r |-> r, err |-> FALSE,
                              verdict |-> aiFollowedGuidelines(r, fcall.arg.watchMode)],
                     !.done = TRUE]
  /\ UNCHANGED turnVars

SpecParse == InitParse /\ [][ApplyParse]_vars

(* ------------------------- the transcript parser ---------------------- *)

\* A capture is a sequence of lines. A line that matches the prompt pattern
\* carries the status field of the prompt and the text after the delimiter;
\* any other line carries its text.
PromptLine(status, command) == [prompt |-> TRUE, status |-> status, text |-> command]

OutputLine(text) == [prompt |-> FALSE, status |-> 0, text |-> text]

StatusFields == {0, 1}

CaptureLines ==
  {PromptLine(c, t) : c \in StatusFields, t \in {"", " ", "ls"}}
    \cup {OutputLine(t) : t \in {"", "out"}}

Captures == SeqsUpTo(CaptureLines, MaxLines)

\* the positions of the prompt matches from line k on, in order
RECURSIVE PromptMatches(_, _)
PromptMatches(content, k) ==
  IF k > Len(content) THEN <<>>
  ELSE IF content[k].prompt THEN <<k>> \o PromptMatches(content, k + 1)
  ELSE PromptMatches(content, k + 1)

\* leading and trailing blank lines removed
RECURSIVE TrimBlankLines(_)
TrimBlankLines(ls) ==
  IF ls = <<>> THEN <<>>
  ELSE IF Head(ls) = "" THEN TrimBlankLines(Tail(ls))
  ELSE IF ls[Len(ls)] = "" THEN TrimBlankLines(SubSeq(ls, 1, Len(ls) - 1))
  ELSE ls

\* the entry of prompt match i with the status of its own prompt as Code
EntryOwnStatus(content, matches, i) ==
  LET start == matches[i]
      stop  == IF i < Len(matches) THEN matches[i + 1] ELSE Len(content) + 1
  IN  [Command |-> content[start].text,
       Output |-> TrimBlankLines([k \in 1..(stop - start - 1) |-> content[start + k].text]),
       Code |-> content[start].status]

\* the entry of prompt match i: the command after the prompt, the lines up
\* to the next prompt match, and the status field of that next prompt match
Entry(content, matches, i) ==
  LET start == matches[i]
      stop  == IF i < Len(matches) THEN matches[i + 1] ELSE Len(content) + 1
  IN  [Command |-> content[start].text,
       Output |-> TrimBlankLines([k \in 1..(stop - start - 1) |-> content[start + k].text]),
       Code |-> IF i < Len(matches) THEN content[matches[i + 1]].status ELSE -1]

\* Entries without the test for an empty command
RECURSIVE EntriesAll(_, _, _)
EntriesAll(content, matches, i) ==
  IF i > Len(matches) THEN <<>>
  ELSE <<Entry(content, matches, i)>> \o EntriesAll(content, matches, i + 1)

RECURSIVE Entries(_, _, _)
Entries(content, matches, i) ==
  IF i > Len(matches) THEN <<>>
  ELSE (IF TrimSpace(content[matches[i]].text) = "" THEN <<>>
        ELSE <<Entry(content, matches, i)>>)
       \o Entries(content, matches, i + 1)

parseExecPaneCommandHistoryWithContent(content) ==
  Entries(content, PromptMatches(content, 1), 1)

InitTranscript ==
  /\ Idle
  /\ fcall \in {[fn |-> "parseExecPaneCommandHistoryWithContent",
                 arg |-> content, res |-> <<>>, done |-> FALSE] :
                content \in Captures}

ApplyTranscript ==
  /\ fcall.fn = "parseExecPaneCommandHistoryWithContent"
  /\ ~fcall.done
  /\ fcall' = [fcall EXCEPT
                 !.res = parseExecPaneCommandHistoryWithContent(fcall.arg),
                 !.done = TRUE]
  /\ UNCHANGED turnVars

SpecTranscript == InitTranscript /\ [][ApplyTranscript]_vars

(* ---------------------------- ExecWaitCapture ------------------------- *)

\* the lines a pane shows while ExecWaitCapture polls it
PollLines ==
  {PromptLine(0, "ls"), PromptLine(0, "pwd"), PromptLine(1, ""), OutputLine("out")}

\* what one capture of the pane can return; the empty capture included
PollCaptures == SeqsUpTo(PollLines, MaxLines)

Commands == {"ls", "pwd"}

ParseError == "failed to parse command history"

\* the zero value of CommandExecHistory
ZeroEntry == [Command |-> "", Output |-> <<>>, Code |-> 0]

\* the trailing line of the capture is a prompt waiting for a command
Completed(content) ==
  /\ content # <<>>
  /\ content[Len(content)].prompt
  /\ TrimSpace(content[Len(content)].text) = ""

\* the call ExecWaitCapture(command) before its first step
CaptureCall(command) ==
  [fn |-> "ExecWaitCapture", arg |-> command, res |-> ZeroEntry, done |-> FALSE,
   pc |-> "send", attempts |-> 0, content |-> <<>>, sent |-> <<>>, err |-> ""]

InEWC(pc) == fcall.fn = "ExecWaitCapture" /\ fcall.pc = pc

\* step 1: the command goes to the pane, with submit
EWCSend ==
  /\ InEWC("send")
  /\ fcall' = [fcall EXCEPT
                 !.sent = Append(@, Directive("ExecCommand", fcall.arg, TRUE)),
                 !.pc = "poll"]
  /\ UNCHANGED turnVars

\* EWCPoll sending the command again with every capture
EWCPollResend ==
  /\ InEWC("poll")
  /\ \E content \in PollCaptures :
       LET n == fcall.attempts + 1
       IN  fcall' = [fcall EXCEPT
                       !.content = content,
                       !.attempts = n,
                       !.sent = Append(@, Directive("ExecCommand", fcall.arg, TRUE)),
                       !.pc = IF Completed(content) \/ Status = "" \/ n >= MaxAttempts
                              THEN "parse" ELSE "poll"]
  /\ UNCHANGED turnVars

\* EWCPoll without counting its attempts
EWCPollUncounted ==
  /\ InEWC("poll")
  /\ \E content \in PollCaptures :
       LET n == fcall.attempts
       IN  fcall' = [fcall EXCEPT
                       !.content = content,
                       !.attempts = n,
                       !.pc = IF Completed(content) \/ Status = "" \/ n >= MaxAttempts
                              THEN "parse" ELSE "poll"]
  /\ UNCHANGED turnVars

\* steps 2 and 3: one capture of the pane, then the test whether to go on:
\* the loop ends when the trailing line shows completion, when Status has
\* been cleared, and after MaxAttempts captures
EWCPoll ==
  /\ InEWC("poll")
  /\ \E content \in PollCaptures :
       LET n == fcall.attempts + 1
       IN  fcall' = [fcall EXCEPT
                       !.content = content,
                       !.attempts = n,
                       !.pc = IF Completed(content) \/ Status = "" \/ n >= MaxAttempts
                              THEN "parse" ELSE "poll"]
  /\ UNCHANGED turnVars

\* EWCParse returning the most recent entry whatever its command
EWCParseAnyEntry ==
  /\ InEWC("parse")
  /\ LET entries == parseExecPaneCommandHistoryWithContent(fcall.content)
     IN  fcall' = IF entries = <<>>
                  THEN [fcall EXCEPT !.res = ZeroEntry, !.err = ParseError,
                                     !.pc = "done", !.done = TRUE]
                  ELSE [fcall EXCEPT !.res = entries[Len(entries)], !.err = "",
                                     !.pc = "done", !.done = TRUE]
  /\ UNCHANGED turnVars

\* step 4: the transcript parser runs over the final capture
EWCParse ==
  /\ InEWC("parse")
  /\ LET entries == parseExecPaneCommandHistoryWithContent(fcall.content)
     IN  fcall' = IF entries = <<>> \/ entries[Len(entries)].Command # fcall.arg
                  THEN [fcall EXCEPT !.res = ZeroEntry, !.err = ParseError,
                                     !.pc = "done", !.done = TRUE]
                  ELSE [fcall EXCEPT !.res = entries[Len(entries)], !.err = "",
                                     !.pc = "done", !.done = TRUE]
  /\ UNCHANGED turnVars

\* another actor clears Status while the call runs (chat.go line 145)
StatusCleared ==
  /\ fcall.fn = "ExecWaitCapture"
  /\ ~fcall.done
  /\ Status # ""
  /\ Status' = ""
  /\ UNCHANGED <<WatchMode, Messages, stack, nChat, nInputs, ctxCancelled, gor,
                 seen, last, fcall>>

\* ExecWaitCapture is called by a running turn (process_message.go line 153)
InitCapture ==
  /\ Status = "running"
  /\ WatchMode = FALSE
  /\ Messages = <<>>
  /\ stack = <<>>
  /\ nChat = 0
  /\ nInputs = 0
  /\ ctxCancelled = FALSE
  /\ gor = [k \in 1..MaxInputs |-> "none"]
  /\ seen = {}
  /\ last = Step("Init")
  /\ fcall \in {CaptureCall(command) : command \in Commands}

EWCStep == EWCSend \/ EWCPoll \/ EWCParse

NextCapture ==
  \/ EWCSend
  \/ EWCPoll
  \/ EWCParse
  \/ StatusCleared

SpecCapture == InitCapture /\ [][NextCapture]_vars

\* the control flow that runs ExecWaitCapture keeps running: its sends,
\* captures and sleeps return
SpecCaptureLive == SpecCapture /\ WF_vars(EWCStep)

(* ------------------------- preparing the pane ------------------------- *)

SupportedShells == {"bash", "zsh", "fish"}

\* the shell argument of /prepare; "" when none is given
ShellArgs == {""} \cup SupportedShells \cup {"tcsh"}

\* the program the pane is found to run
CurrentCommands == SupportedShells \cup {"unknown"}

Panes == [IsSubShell : BOOLEAN, CurrentCommand : CurrentCommands]

\* the command that sets the prompt of a supported shell, by the variable it sets
SetPromptCommand(shell) ==
  CASE shell = "bash" -> "PS1="
    [] shell = "zsh"  -> "PROMPT="
    [] OTHER          -> "fish_prompt"

ClearScreen == "C-l"

\* PrepareExecPaneWithShell taking the current program of a sub-shell pane too
PrepareIgnoringSubShell(shell, pane) ==
  LET target == IF shell # "" THEN shell ELSE pane.CurrentCommand
  IN  IF target \in SupportedShells
      THEN <<SetPromptCommand(target), ClearScreen>>
      ELSE <<>>

\* PrepareExecPaneWithShell without the clear-screen directive
PrepareWithoutClear(shell, pane) ==
  LET target == IF shell # "" THEN shell
                ELSE IF pane.IsSubShell THEN ""
                ELSE pane.CurrentCommand
  IN  IF target \in SupportedShells
      THEN <<SetPromptCommand(target)>>
      ELSE <<>>

\* the commands one preparation sends to the pane, in order
PrepareExecPaneWithShell(shell, pane) ==
  LET target == IF shell # "" THEN shell
                ELSE IF pane.IsSubShell THEN ""
                ELSE pane.CurrentCommand
  IN  IF target \in SupportedShells
      THEN <<SetPromptCommand(target), ClearScreen>>
      ELSE <<>>

InitPrepare ==
  /\ Idle
  /\ fcall \in {[fn |-> "PrepareExecPaneWithShell", arg |-> "", res |-> <<>>,
                 done |-> FALSE, pane |-> pane, n |-> 0, commandsSent |-> <<>>] :
                pane \in Panes}

\* one /prepare command
Prepare ==
  /\ fcall.fn = "PrepareExecPaneWithShell"
  /\ fcall.n < MaxPrepares
  /\ \E shell \in ShellArgs :
       LET sent == PrepareExecPaneWithShell(shell, fcall.pane)
       IN  fcall' = [fcall EXCEPT !.arg = shell, !.res = sent, !.done = TRUE,
                                  !.n = @ + 1, !.commandsSent = @ \o sent]
  /\ UNCHANGED turnVars

SpecPrepare == InitPrepare /\ [][Prepare]_vars

(* --------------------------- BrowserClient ---------------------------- *)

\* The client is kept in fcall: token is config.Browserless.Token, cancel
\* tells whether b.cancel is set, connected is b.connected; arg and res are
\* the latest method called and the error it returned ("" for nil), touched
\* tells whether that call ran a chromedp operation, and n counts the calls.

Tokens == {"", "token"}

ErrToken == "browserless token required"

ErrAllocator == "failed to create remote allocator"

ErrNotConnected == "not connected"

\* the error a chromedp operation may return
ErrChromedp == "chromedp error"

BrowserCall(op, err, touched) ==
  [fcall EXCEPT !.arg = op, !.res = err, !.done = TRUE, !.n = @ + 1,
                !.touched = touched]

InBrowser == fcall.fn = "BrowserClient" /\ fcall.n < MaxBrowserCalls

\* NewBrowserClient
InitBrowser ==
  /\ Idle
  /\ fcall \in {[fn |-> "BrowserClient", arg |-> "", res |-> "", done |-> FALSE,
                 token |-> t, cancel |-> FALSE, connected |-> FALSE, n |-> 0,
                 touched |-> FALSE] : t \in Tokens}

\* lines 27-70
Connect ==
  /\ InBrowser
  /\ IF fcall.token = ""
     THEN fcall' = BrowserCall("Connect", ErrToken, FALSE)
     ELSE \E allocated \in BOOLEAN :
            IF ~allocated
            THEN fcall' = BrowserCall("Connect", ErrAllocator, FALSE)
            ELSE fcall' = [BrowserCall("Connect", "", FALSE)
                             EXCEPT !.cancel = TRUE, !.connected = TRUE]
  /\ UNCHANGED turnVars

\* the client after the connected check and the chromedp operation of op
Operated(op) ==
  IF ~fcall.connected
  THEN {BrowserCall(op, ErrNotConnected, FALSE)}
  ELSE {BrowserCall(op, err, TRUE) : err \in {"", ErrChromedp}}

\* lines 72-81
Navigate ==
  /\ InBrowser
  /\ fcall' \in Operated("Navigate")
  /\ UNCHANGED turnVars

\* lines 83-93
Screenshot ==
  /\ InBrowser
  /\ fcall' \in Operated("Screenshot")
  /\ UNCHANGED turnVars

\* lines 95-105
GetText ==
  /\ InBrowser
  /\ fcall' \in Operated("GetText")
  /\ UNCHANGED turnVars

\* Close without the assignment of line 110
CloseKeepConnected ==
  /\ InBrowser
  /\ fcall' = BrowserCall("Close", "", FALSE)
  /\ UNCHANGED turnVars

\* lines 107-113
Close ==
  /\ InBrowser
  /\ fcall' = IF fcall.cancel
              THEN [BrowserCall("Close", "", FALSE) EXCEPT !.connected = FALSE]
              ELSE BrowserCall("Close", "", FALSE)
  /\ UNCHANGED turnVars

NextBrowser ==
  \/ Connect
  \/ Navigate
  \/ Screenshot
  \/ GetText
  \/ Close

SpecBrowser == InitBrowser /\ [][NextBrowser]_vars

(* ------------------------------ properties ---------------------------- *)

\* a step of the main control flow (the interrupt goroutines leave the stack alone)
MainStep == stack' # stack

\* a step that hands a directive to the pane or an action to the browser
PaneStep == MainStep /\ last'.d.kind # ""

\* a step of the main control flow recorded as op
StepOf(op) == MainStep /\ last'.op = op

\* the latest step of the main control flow received a reply that broke the guidelines
AfterInvalid == last.op = "Invalid"

Corrective == {GuidelineFlags, GuidelineTags, GuidelineEmpty}

\* C1: a reply that fails the guideline validator makes the turn recurse with
\* exactly the corrective message the validator returned for it, and between
\* that reply and the next chat call nothing is handed to the pane or the
\* browser: the only step of the main control flow that can follow is the
\* pre-call check of the corrective turn.
C1_InvalidReplyOnlyCorrects ==
  [][/\ StepOf("Invalid") =>
          /\ (InPUM("start"))'
          /\ Top(stack').message \in Corrective
          /\ \E response \in Responses :
               LET g == aiFollowedGuidelines(parseAIResponse(response), WatchMode)
               IN  ~g.ok /\ Top(stack').message = g.msg
          /\ last'.d = NoDirective
     /\ (AfterInvalid /\ MainStep) =>
          /\ last'.op \in {"ChatCall", "PreCancelled"}
          /\ last'.d = NoDirective]_vars

\* the chat call of a corrective turn is in flight
C1_Witness ==
  /\ InPUM("inflight")
  /\ Top(stack).message = GuidelineTags
  /\ stack[Len(stack) - 1].pc = "ret123"

\* the flags of r that are set, and the action kinds of r that are populated
FlagsSet(r) == {t \in FlagTags : r[t]}

KindsPopulated(r) ==
  {t \in {"ExecCommand", "SendKeys"} : r[t] # <<>>}
    \cup {t \in {"PasteMultilineContent", "BrowserAction"} : r[t] # ""}

\* C2: aiFollowedGuidelines returns ok = true exactly when at most one flag
\* is set, at most one action kind is populated, and watch mode is on or
\* something is present; its message is empty exactly when ok = true.
C2_GuidelinesVerdict ==
  (fcall.fn = "aiFollowedGuidelines" /\ fcall.done) =>
    LET r     == fcall.arg.r
        flags == Cardinality(FlagsSet(r))
        kinds == Cardinality(KindsPopulated(r))
    IN  /\ fcall.res.ok <=>
             /\ flags <= 1
             /\ kinds <= 1
             /\ (fcall.arg.watchMode \/ flags + kinds >= 1)
        /\ fcall.res.ok <=> fcall.res.msg = ""

\* an empty response is accepted in watch mode
C2_Witness ==
  /\ fcall.fn = "aiFollowedGuidelines"
  /\ fcall.done
  /\ fcall.arg.watchMode
  /\ fcall.arg.r = NoResponse
  /\ fcall.res = [msg |-> "", ok |-> TRUE]

\* C3: whatever a turn hands to the pane or the browser is of one action
\* kind: when a frame executes an action, every action that frame executed
\* before for the same reply was of that kind.
C3_OneActionKindPerTurn ==
  [][PaneStep => Top(stack).did \subseteq {last'.d.kind}]_vars

\* a turn has sent the first of two commands and is about to send the second
C3_Witness ==
  /\ InPUM("exec")
  /\ Top(stack).i = 2
  /\ Top(stack).did = {"ExecCommand"}
  /\ last.d.kind = "ExecCommand"

\* C4: when the chat call returns an error, the step that handles it clears
\* Status, returns false to the caller and leaves the log as it was; it
\* follows the chat call directly, so the turn handed nothing to the pane or
\* the browser and the log is the one the call was made with.
C4_ChatErrorAbortsTurn ==
  [][StepOf("ChatError") =>
       /\ last.op = "ChatCall"
       /\ Status' = ""
       /\ Return(FALSE)
       /\ Messages' = Messages
       /\ nChat' = nChat
       /\ last'.d = NoDirective]_vars

\* a chat call failed in a turn that followed a persisted exchange
C4_Witness ==
  /\ last.op = "ChatError"
  /\ Status = ""
  /\ Len(Messages) = 2

\* C5: a turn that finds Status = "" at its pre-call check returns false
\* without a chat call; a turn whose chat call comes back while Status = ""
\* returns false with the log unchanged and nothing handed to the pane or
\* the browser.
C5_StatusChecksCancel ==
  [][/\ (InPUM("start") /\ Status = "" /\ MainStep) =>
          /\ nChat' = nChat
          /\ Return(FALSE)
          /\ last'.d = NoDirective
     /\ (InPUM("inflight") /\ Status = "" /\ MainStep) =>
          /\ Messages' = Messages
          /\ Return(FALSE)
          /\ last'.d = NoDirective]_vars

\* a reply arrived after Status was cleared during the call, and was dropped
C5_Witness ==
  /\ last.op = "Dropped"
  /\ Status = ""
  /\ nChat = 2

\* C6 as stated: a reply that fails validation leaves the log as it was.
C6_InvalidReplyLeavesLog ==
  [][StepOf("Invalid") => Messages' = Messages]_vars

\* C6: a reply that fails validation extends the log by the outbound message
\* of the turn and then the invalid reply, before the corrective turn starts.
C6_InvalidReplyIsLogged ==
  [][StepOf("Invalid") =>
       LET n == Len(Messages)
       IN  /\ Len(Messages') = n + 2
           /\ SubSeq(Messages', 1, n) = Messages
           /\ Messages'[n + 1].FromUser
           /\ Messages'[n + 1].Content = Top(stack).message
           /\ ~Messages'[n + 2].FromUser
           /\ Messages'[n + 2].Content = "response"]_vars

\* the corrective turn starts with the failed exchange in the log
C6_Witness ==
  /\ AfterInvalid
  /\ InPUM("start")
  /\ Len(Messages) = 2
  /\ Messages[1].Content = UserText

\* C7: once a turn has set Status to "waiting" for a user input given to
\* processInput, no chat call is issued and nothing is handed to the pane or
\* the browser until the next user input starts.
C7_WaitingIsTerminal ==
  [][("waiting" \in seen /\ stack # <<>> /\ stack[1].fn = "PI") =>
       (nChat' = nChat /\ ~PaneStep)]_vars

\* C8 as stated: a turn does not end as accomplished right after one of the
\* actions of its reply failed.
C8_NoSuccessAfterFailure ==
  [][StepOf("Accomplished") => ~last.err]_vars

\* C8: the call made for a user input returns true only if a turn processed
\* a valid reply with RequestAccomplished, no confirmation was declined and
\* no browser action failed; the step that processes that reply clears
\* Status and returns true through every enclosing frame, with no chat call
\* and nothing handed to the pane or the browser on the way.
C8_AccomplishedIsTerminal ==
  [][/\ (stack' # <<>> /\ stack'[1].acc) =>
          /\ "accomplished" \in seen'
          /\ "declined" \notin seen'
          /\ "browserFailed" \notin seen'
     /\ StepOf("Accomplished") =>
          /\ Top(stack).r.RequestAccomplished
          /\ Status' = ""
          /\ Len(stack') = 1
          /\ stack'[1].acc
          /\ nChat' = nChat
          /\ last'.d = NoDirective]_vars

\* the second turn of a recursion chain ended as accomplished
C8_Witness ==
  /\ last.op = "Accomplished"
  /\ Len(stack) = 1
  /\ stack[1].acc
  /\ nChat = 2
  /\ Status = ""

\* C9: a declined confirmation hands nothing to the pane or the browser,
\* clears Status and returns false, and no chat call follows for that user
\* input.
C9_DeclineStopsInput ==
  [][/\ StepOf("Declined") =>
          /\ last'.d = NoDirective
          /\ Status' = ""
          /\ Return(FALSE)
     /\ ("declined" \in seen) => nChat' = nChat]_vars

\* a confirmation was declined in a turn started by a busy turn, which goes on
C9_Witness ==
  /\ last.op = "Declined"
  /\ Len(stack) = 2
  /\ Top(stack).fn = "PUM"
  /\ Status = ""

\* the prompt lines of a capture that are followed by a command
CommandPrompts(content) ==
  {k \in DOMAIN content : content[k].prompt /\ content[k].text \notin {"", " "}}

\* the prompt lines of a capture after line k
LaterPrompts(content, k) == {j \in DOMAIN content : j > k /\ content[j].prompt}

\* C10: the Code of the entry for the command typed at a prompt is the
\* status field of the next prompt of the capture, and -1 when no prompt
\* follows.
C10_CodeOfNextPrompt ==
  (fcall.fn = "parseExecPaneCommandHistoryWithContent" /\ fcall.done) =>
    \A k \in CommandPrompts(fcall.arg) :
      LET n     == Cardinality({j \in CommandPrompts(fcall.arg) : j <= k})
          later == LaterPrompts(fcall.arg, k)
          next  == CHOOSE j \in later : \A l \in later : j <= l
      IN  /\ n \in DOMAIN fcall.res
          /\ fcall.res[n].Code = IF later = {} THEN -1 ELSE fcall.arg[next].status

\* a command typed at a prompt showing 0 got the 1 of the prompt after it,
\* and the command typed there, with no prompt after it, got -1
C10_Witness ==
  /\ fcall.fn = "parseExecPaneCommandHistoryWithContent"
  /\ fcall.done
  /\ fcall.arg = <<PromptLine(0, "ls"), OutputLine("out"), PromptLine(1, "ls")>>
  /\ Len(fcall.res) = 2
  /\ fcall.res[1].Code = 1
  /\ fcall.res[2].Code = -1

\* C11: the parser returns one entry for each prompt that is followed by a
\* non-empty command, in the order of the capture and with the command text
\* as it stands in the capture; prompts followed by an empty or blank command
\* give no entry, and a capture without prompt gives no entry at all.
C11_OneEntryPerCommand ==
  (fcall.fn = "parseExecPaneCommandHistoryWithContent" /\ fcall.done) =>
    /\ Len(fcall.res) = Cardinality(CommandPrompts(fcall.arg))
    /\ \A k \in CommandPrompts(fcall.arg) :
         LET n == Cardinality({j \in CommandPrompts(fcall.arg) : j <= k})
         IN  fcall.res[n].Command = fcall.arg[k].text
    /\ (\A k \in DOMAIN fcall.arg : ~fcall.arg[k].prompt) => fcall.res = <<>>

\* two prompts in a row without command, then a prompt with a command
C11_Witness ==
  /\ fcall.fn = "parseExecPaneCommandHistoryWithContent"
  /\ fcall.done
  /\ fcall.arg = <<PromptLine(0, ""), PromptLine(0, " "), PromptLine(1, "ls")>>
  /\ Len(fcall.res) = 1
  /\ fcall.res[1].Command = "ls"

\* the entries the transcript parser finds in the final capture of the call
FinalEntries == parseExecPaneCommandHistoryWithContent(fcall.content)

C13_CommandSentOnce ==
  fcall.fn = "ExecWaitCapture" =>
    fcall.sent = IF fcall.pc = "send" THEN <<>>
                 ELSE <<Directive("ExecCommand", fcall.arg, TRUE)>>

\* a call that ended with the parsing error after several captures
C13_Witness ==
  /\ fcall.fn = "ExecWaitCapture"
  /\ fcall.done
  /\ fcall.attempts > 1
  /\ fcall.err = ParseError
  /\ Len(fcall.sent) = 1

\* C14: every call of ExecWaitCapture ends; it makes at most MaxAttempts
\* captures, and the capture that shows completion, or that is made after
\* Status was cleared, is its last.
C14_PollingTerminates ==
  /\ <>(fcall.fn = "ExecWaitCapture" /\ fcall.done)
  /\ [](fcall.fn = "ExecWaitCapture" => fcall.attempts <= MaxAttempts)
  /\ [][(InEWC("poll") /\ fcall' # fcall /\ (Completed(fcall'.content) \/ Status = ""))
          => fcall'.pc = "parse"]_vars

\* the pane never showed a prompt and Status stayed set: the limit ended the call
C14_Witness ==
  /\ fcall.fn = "ExecWaitCapture"
  /\ fcall.done
  /\ fcall.attempts = MaxAttempts
  /\ Status = "running"
  /\ ~Completed(fcall.content)
  /\ \A k \in DOMAIN fcall.content : ~fcall.content[k].prompt

\* a /prepare command has just run
PrepareStep == fcall.fn = "PrepareExecPaneWithShell" /\ fcall'.n = fcall.n + 1

\* C15: a preparation sends nothing to the pane when its shell argument is
\* not bash, zsh or fish, and when it has no shell argument and the pane is
\* a sub-shell or runs a program that is not one of these shells.
C15_UnsupportedSendsNothing ==
  [][(/\ PrepareStep
      /\ \/ fcall'.arg \notin {"", "bash", "zsh", "fish"}
         \/ /\ fcall'.arg = ""
            /\ \/ fcall.pane.IsSubShell
               \/ fcall.pane.CurrentCommand \notin {"bash", "zsh", "fish"})
       => (fcall'.res = <<>> /\ fcall'.commandsSent = fcall.commandsSent)]_vars

\* /prepare without argument on a sub-shell pane that runs bash sent nothing
C15_Witness ==
  /\ fcall.fn = "PrepareExecPaneWithShell"
  /\ fcall.done
  /\ fcall.arg = ""
  /\ fcall.pane = [IsSubShell |-> TRUE, CurrentCommand |-> "bash"]
  /\ fcall.res = <<>>
  /\ fcall.commandsSent = <<>>

\* C16: a preparation with the argument bash, zsh or fish sends two commands
\* to the pane, the one that sets the prompt of that shell and then C-l,
\* whatever the pane runs and whatever was sent before.
C16_SupportedSendsTwo ==
  [][(PrepareStep /\ fcall'.arg \in {"bash", "zsh", "fish"}) =>
       /\ Len(fcall'.res) = 2
       /\ fcall'.res[1] = (CASE fcall'.arg = "bash" -> "PS1="
                             [] fcall'.arg = "zsh"  -> "PROMPT="
                             [] OTHER               -> "fish_prompt")
       /\ fcall'.res[2] = "C-l"
       /\ fcall'.commandsSent = fcall.commandsSent \o fcall'.res]_vars

\* the same preparation ran twice on a sub-shell pane that runs no shell
C16_Witness ==
  /\ fcall.fn = "PrepareExecPaneWithShell"
  /\ fcall.n = 2
  /\ fcall.pane = [IsSubShell |-> TRUE, CurrentCommand |-> "unknown"]
  /\ fcall.commandsSent = <<"PS1=", "C-l", "PS1=", "C-l">>

\* startWatchMode is at the program point pc
InSWM(pc) == stack # <<>> /\ Top(stack).fn = "SWM" /\ Top(stack).pc = pc

\* C17: startWatchMode starts a turn on entry unless Status is ""; after a
\* turn that reports accomplished it clears WatchMode and Status and stops;
\* after any other turn it starts another cycle exactly when Status is set
\* and WatchMode is on; and once the interrupt goroutine has cleared Status
\* and WatchMode, no cycle and no turn of the scheduler is started.
C17_WatchScheduler ==
  [][/\ (InSWM("start") /\ MainStep) =>
          IF Status = ""
          THEN stack' = <<>> /\ nChat' = nChat
          ELSE Len(stack') = 2 /\ (InPUM("start"))'
     /\ (InSWM("after") /\ MainStep) =>
          IF Top(stack).acc
          THEN ~WatchMode' /\ Status' = "" /\ stack' = <<>>
          ELSE /\ UNCHANGED <<Status, WatchMode>>
               /\ IF Status # "" /\ WatchMode
                  THEN (InSWM("start"))' ELSE stack' = <<>>
     /\ (gor[1] = "exit" /\ MainStep) =>
          last'.op \notin {"WatchAgain", "WatchTurn"}]_vars

\* the frames of ProcessUserMessage that are not waiting for a callee
ActiveTurns ==
  {i \in 1..Len(stack) :
     stack[i].fn = "PUM" /\ stack[i].pc \notin {"ret123", "ret282", "ret238"}}

\* the frames of ProcessUserMessage whose chat call has not returned
InFlight == {i \in 1..Len(stack) : stack[i].fn = "PUM" /\ stack[i].pc = "inflight"}

\* C18: turns are one at a time. At most one frame of ProcessUserMessage is
\* active and at most one chat call is in flight; the active frame is the
\* innermost one, every frame below it waits at a call site of lines 123, 238
\* or 282 for the turn it called; and a step of an interrupt goroutine, which
\* is any step that leaves the stack alone, changes neither the ChatMessage
\* log nor the count of chat calls nor what was handed to the pane.
C18_OneTurnAtATime ==
  /\ [](/\ Cardinality(ActiveTurns) <= 1
        /\ Cardinality(InFlight) <= 1
        /\ ActiveTurns \subseteq {Len(stack)})
  /\ [][stack' = stack => UNCHANGED <<Messages, nChat, last>>]_vars

\* a chat call in flight two turns deep while an interrupt is pending
C18_Witness ==
  /\ Len(stack) >= 3
  /\ stack[2].fn = "PUM" /\ stack[2].pc \in {"ret123", "ret282", "ret238"}
  /\ InPUM("inflight")
  /\ gor[1] = "fired"

\* the reply of the frame f is one the history does not keep
NotPersisted(f) == f.r.ExecPaneSeemsBusy \/ f.r.NoComment

IsJSONObject(s) == s = "{}"

\* the reply text without its segments of the given tag
RECURSIVE Without(_, _)
Without(response, tag) ==
  IF response = <<>> THEN <<>>
  ELSE IF Head(response).tag = tag THEN Without(Tail(response), tag)
       ELSE <<Head(response)>> \o Without(Tail(response), tag)

\* the first BrowserAction payload of the reply text is not a JSON object
MalformedBrowserAction(response) ==
  LET browser == Bodies(response, "BrowserAction")
  IN  browser # <<>> /\ ~IsJSONObject(browser[1])

\* C20: parseAIResponse returns no error for any reply text; when the first
\* BrowserAction payload is not a JSON object, BrowserAction is empty and
\* every other field is what the reply without its BrowserAction tags
\* gives; and a reply that has nothing but BrowserAction tags, the first of
\* them malformed, is rejected outside watch mode as an empty response.
C20_MalformedBrowserActionAbsent ==
  (fcall.fn = "parseAIResponse" /\ fcall.done) =>
    LET response == fcall.arg.response
        r        == fcall.res.r
    IN  /\ ~fcall.res.err
        /\ MalformedBrowserAction(response) =>
              /\ r.BrowserAction = ""
              /\ r = parseAIResponse(Without(response, "BrowserAction"))
              /\ (Without(response, "BrowserAction") = <<>> /\ ~fcall.arg.watchMode) =>
                    fcall.res.verdict = [msg |-> GuidelineEmpty, ok |-> FALSE]

\* the log starts with the summary that squashHistory leaves
Squashed(msgs) == msgs # <<>> /\ msgs[1] = ChatMessage("summary", FALSE, 0)

\* the messages of the log that were appended since the latest squash
SinceSquash(msgs) == IF Squashed(msgs) THEN Tail(msgs) ELSE msgs

\* msgs is a sequence of pairs, a user message and then a model reply
Alternates(msgs) ==
  /\ Len(msgs) % 2 = 0
  /\ \A k \in 1..Len(msgs) : msgs[k].FromUser = (k % 2 = 1)

\* C21: the ChatMessage log is append-only under the turn loop. A step that
\* changes the log is either the squash at the start of a turn, or it keeps
\* every entry in place and adds one user message followed by one model
\* reply; so the messages since the latest squash, and the whole log when
\* it was never squashed, come in pairs of a user message and a reply.
C21_LogAppendOnly ==
  /\ [](Alternates(SinceSquash(Messages)))
  /\ [][Messages' # Messages =>
          \/ /\ needSquash(Messages)
             /\ last'.op \in {"ChatCall", "PreCancelled"}
             /\ Messages' = squashHistory(Messages)
          \/ /\ Len(Messages') = Len(Messages) + 2
             /\ SubSeq(Messages', 1, Len(Messages)) = Messages
             /\ Messages'[Len(Messages) + 1].FromUser
             /\ ~Messages'[Len(Messages) + 2].FromUser]_vars

\* a pair appended after a squash
C21_Witness ==
  /\ Squashed(Messages)
  /\ Len(Messages) = 3
  /\ last.op \in {"Valid", "Invalid"}

\* the frames of ProcessUserMessage that hold an action of their reply which
\* has not been handed to the pane yet
PendingAction ==
  {i \in 1..Len(stack) : stack[i].fn = "PUM" /\ tagCount(stack[i].r) > 0}

\* C22: the action carried by a valid reply is executed before the chat call
\* of any follow-up turn: no chat call is issued while a turn still holds an
\* action of its reply that was not handed to the pane, also when the reply
\* sets the busy flag.
C22_ActionBeforeFollowUp ==
  [][StepOf("ChatCall") => PendingAction = {}]_vars

\* C23: a turn whose valid reply sets the busy flag starts exactly one
\* follow-up turn: at the busy block it calls ProcessUserMessage once with
\* the re-probe message, and when it reaches the end of the function after
\* that call has returned, it returns without calling ProcessUserMessage
\* again.
C23_BusyRecursesOnce ==
  [][/\ (InPUM("busy") /\ MainStep) =>
          /\ Len(stack') = Len(stack) + 1
          /\ Top(stack') = Frame("PUM", "start", "bg", BusyProbe)
     /\ (InPUM("flags") /\ Top(stack).r.ExecPaneSeemsBusy /\ MainStep) =>
          Len(stack') < Len(stack)]_vars

\* C24: a turn that reaches the end of the function with no flag set in its
\* reply calls ProcessUserMessage with the update probe and its own context
\* when watch mode is off, and returns when watch mode is on; a turn whose
\* reply sets NoComment returns false there; and when the turn called from
\* line 282 returns, its caller returns at once, handing the same result to
\* the frame that called it.
C24_ContinuationDecision ==
  [][/\ (InPUM("flags") /\ boolCount(Top(stack).r) = 0 /\ MainStep) =>
          IF ~WatchMode
          THEN /\ last'.op = "UpdateRecurse"
               /\ Len(stack') = Len(stack) + 1
               /\ stack'[Len(stack)].pc = "ret282"
               /\ Top(stack') = Frame("PUM", "start", Top(stack).ctx, UpdateProbe)
          ELSE /\ last'.op = "WatchCycleEnd"
               /\ Len(stack') < Len(stack)
     /\ (InPUM("flags") /\ Top(stack).r.NoComment /\ MainStep) =>
          /\ last'.op = "NoComment"
          /\ Len(stack') < Len(stack)
     /\ (MainStep /\ Len(stack) >= 2 /\ Len(stack') < Len(stack)
          /\ stack[Len(stack) - 1].pc = "ret282") =>
          /\ Len(stack') <= Len(stack) - 2
          /\ (stack' # <<>> /\ Top(stack').fn \in {"PI", "SWM"}) =>
                Top(stack').acc = (last'.op = "Accomplished")]_vars

\* outside watch mode a reply without a flag has led to the update probe,
\* and the turn it started has reported the request accomplished
C24_Witness ==
  /\ last.op = "Accomplished"
  /\ ~WatchMode
  /\ nChat = 2
  /\ stack # <<>> /\ Top(stack).fn = "PI" /\ Top(stack).acc

\* the interrupt goroutine of the running input has cleared Status (line 145)
\* while the turn loop of that input was running
Interrupted == "interrupted" \in seen

GorWrites(k) ==
  \/ gor[k] = "cancelled" /\ gor'[k] = "cleared"
  \/ gor[k] = "cleared" /\ gor'[k] = "exit"

\* C26: the interrupt goroutine of a user input writes Status and WatchMode
\* only while the processInput call that started it is running, never after
\* that call has returned.
C26_GoroutineEndsWithInput ==
  [][\A k \in 1..MaxInputs : GorWrites(k) => Running(k)]_vars

\* C27: once the interrupt goroutine of the running user input has cleared
\* Status during the turn loop, no new chat call is issued for that input, whatever the turn loop
\* writes to Status afterwards; a chat call already in flight may still
\* return.
C27_NoChatCallAfterInterrupt ==
  [][StepOf("ChatCall") => ~Interrupted]_vars

\* C28: processInput sets Status to "running" in the step that starts the
\* first turn of a non-subcommand input, and issues no chat call before;
\* when it has returned, Status is "" whatever the turn loop did. A
\* subcommand input gets no context, no goroutine, no Status "running" from
\* processInput and no turn from it: the frames of such a session are those
\* that ProcessSubCommand starts.
C28_StatusAroundInput ==
  /\ [](last.op = "InputEnd" => Status = "" /\ stack = <<>>)
  /\ [](stack # <<>> /\ stack[1].fn = "PI" /\ Top(stack).pc = "setup" =>
          Len(stack) = 1 /\ last.op = "InputBegin")
  /\ [][/\ StepOf("InputRun") =>
             /\ stack[1].fn = "PI"
             /\ Status' = "running"
             /\ Len(stack') = 2 /\ (InPUM("start"))'
             /\ nChat' = nChat
        /\ StepOf("WatchBegin") =>
             /\ UNCHANGED <<gor, ctxCancelled, nChat>>
             /\ Len(stack') = 1 /\ stack'[1].fn = "SWM"
        /\ (stack # <<>> /\ stack[1].fn = "SWM" /\ MainStep) =>
             last'.op \notin {"InputBegin", "InputRun", "InputEnd"}]_vars

\* processInput has returned from an input whose last turn set Status to
\* "waiting"
C28_Witness ==
  /\ last.op = "InputEnd"
  /\ "waiting" \in seen
  /\ Status = ""

\* the positions of the ExecCommand tags in the reply text
ExecPositions(response) == {p \in DOMAIN response : response[p].tag = "ExecCommand"}

\* the command of the k-th ExecCommand tag of the reply text, in document order
DocumentItem(response, k) ==
  LET p == CHOOSE x \in ExecPositions(response) :
             Cardinality({y \in ExecPositions(response) : y < x}) = k - 1
  IN  TrimSpace(response[p].body)

Called(op) == fcall.fn = "BrowserClient" /\ fcall.done /\ fcall.arg = op

\* C30: the connection state of the browser client. connected turns true
\* only in a Connect that returns no error and false only in a Close; a
\* Connect that returns no error leaves it true and a Close leaves it false;
\* Navigate, Screenshot and GetText return "not connected" without running
\* a chromedp operation whenever connected is false, and run one otherwise;
\* Connect with an empty token returns an error and leaves connected false;
\* and Close returns no error, being a no-op before any Connect.
C30_BrowserConnection ==
  [][fcall.fn = "BrowserClient" =>
       LET op == fcall'.arg
           err == fcall'.res
       IN  /\ (fcall'.connected /\ ~fcall.connected) => op = "Connect" /\ err = ""
           /\ (~fcall'.connected /\ fcall.connected) => op = "Close"
           /\ (op = "Connect" /\ err = "") => fcall'.connected
           /\ (op = "Connect" /\ fcall.token = "") => err = ErrToken /\ ~fcall'.connected
           /\ op = "Close" =>
                /\ err = "" /\ ~fcall'.connected
                /\ ~fcall.cancel =>
                     /\ fcall'.cancel = fcall.cancel
                     /\ fcall'.connected = fcall.connected
           /\ op \in {"Navigate", "Screenshot", "GetText"} =>
                /\ fcall'.connected = fcall.connected
                /\ fcall'.cancel = fcall.cancel
                /\ IF fcall.connected THEN fcall'.touched
                   ELSE err = ErrNotConnected /\ ~fcall'.touched]_vars

\* GetText refused after a connection was made and closed
C30_Witness ==
  /\ Called("GetText")
  /\ fcall.res = ErrNotConnected
  /\ fcall.cancel
  /\ ~fcall.connected
  /\ ~fcall.touched

====
